---- MODULE Spec2Model ----
(***************************************************************************)
(* Order ingestion (api/webhooks/shopify.js) and the claim / start /       *)
(* complete state machine with the daily points ledger                     *)
(* (src/lib/walletMapping.js, which also holds realtimeHandler.js).        *)
(*                                                                         *)
(* The three tables orders, order_line_items and daily_points are          *)
(* sequences of rows; a row's id is its index.  Every supabase call is one *)
(* atomic step; a handler that awaits several calls is several steps, and  *)
(* other handlers may run between them.                                    *)
(***************************************************************************)
EXTENDS Integers, Sequences, FiniteSets, TLC

(***************************************************************************)
(* Bounds of the model.                                                    *)
(***************************************************************************)
\* distinct upstream orders (Shopify order ids 1..MaxOrders)
MaxOrders == 3
\* webhook requests delivered in one behaviour of the endpoint alone
MaxDeliveries == 2
\* order events delivered in one behaviour of the whole system
MaxOrderEvents == 2
\* staff calls (claim, start, complete) made in one behaviour
MaxCalls == 3
\* staff calls in the ledger scenario: one batch claim and three completions
MaxLedgerCalls == 4
\* requests delivered in the update scenario: two creations and an update
MaxUpdateEvents == 3
\* requests delivered in the naming scenario: a creation and an update
MaxNameEvents == 2
\* webhook invocations that can be in flight at once
NumDeliverers == 2
\* completeWallet calls that can be in flight at once
NumCallers == 2

NULL == "null"

(***************************************************************************)
(* Strings.  TLC treats a string as a sequence of characters for Len,      *)
(* SubSeq and \o; toLowerCase, includes and toString are built on these.   *)
(***************************************************************************)
Upper == "ABCDEFGHIJKLMNOPQRSTUVWXYZ"
Lower == "abcdefghijklmnopqrstuvwxyz"

CharAt(s, i) == SubSeq(s, i, i)

LowerChar(ch) ==
  IF \E k \in 1..Len(Upper) : CharAt(Upper, k) = ch
  THEN CharAt(Lower, CHOOSE k \in 1..Len(Upper) : CharAt(Upper, k) = ch)
  ELSE ch

RECURSIVE toLowerCase(_)
toLowerCase(s) ==
  IF Len(s) = 0 THEN s
  ELSE toLowerCase(SubSeq(s, 1, Len(s) - 1)) \o LowerChar(CharAt(s, Len(s)))

includes(s, sub) ==
  \E k \in 1..(Len(s) - Len(sub) + 1) : SubSeq(s, k, k + Len(sub) - 1) = sub

\* String.prototype.trim, for blanks
RECURSIVE trim(_)
trim(s) ==
  IF Len(s) = 0 THEN s
  ELSE IF CharAt(s, 1) = " " THEN trim(SubSeq(s, 2, Len(s)))
  ELSE IF CharAt(s, Len(s)) = " " THEN trim(SubSeq(s, 1, Len(s) - 1))
  ELSE s

Digits == "0123456789"

RECURSIVE toString(_)
toString(n) ==
  IF n < 10 THEN CharAt(Digits, n + 1)
  ELSE toString(n \div 10) \o CharAt(Digits, (n % 10) + 1)

(***************************************************************************)
(* The wallet catalogue, in the order the object literal lists its keys.   *)
(***************************************************************************)
WALLET_MAPPINGS == <<
  [type |-> "peyton",              keywords |-> <<"peyton">>, points |-> 2],
  [type |-> "richmond",            keywords |-> <<"richmond">>, points |-> 2],
  [type |-> "keller-money-clip",   keywords |-> <<"keller money clip", "keller">>, points |-> 2],
  [type |-> "georgetown",          keywords |-> <<"georgetown">>, points |-> 2],
  [type |-> "pflugerville",        keywords |-> <<"pflugerville">>, points |-> 2],
  [type |-> "minimalist-badge",    keywords |-> <<"minimalist badge wallet", "minimalist badge">>, points |-> 2],
  [type |-> "knife-sheath",        keywords |-> <<"knife sheath">>, points |-> 2],
  [type |-> "keychain",            keywords |-> <<"keychain">>, points |-> 2],
  [type |-> "passport-holder",     keywords |-> <<"passport holder", "passport">>, points |-> 3],
  [type |-> "victory",             keywords |-> <<"victory">>, points |-> 3],
  [type |-> "western-vertical",    keywords |-> <<"western vertical wallet", "western vertical">>, points |-> 3],
  [type |-> "valet-tray",          keywords |-> <<"valet tray">>, points |-> 3],
  [type |-> "tyler-vertical",      keywords |-> <<"tyler vertical wallet", "tyler vertical">>, points |-> 3],
  [type |-> "mansfield",           keywords |-> <<"mansfield">>, points |-> 3],
  [type |-> "field-notes-cover",   keywords |-> <<"leather field notes cover", "field notes cover", "field notes">>, points |-> 3],
  [type |-> "badge-vertical",      keywords |-> <<"badge vertical wallet", "badge vertical">>, points |-> 3],
  [type |-> "apple-watch-band",    keywords |-> <<"apple watch leather band", "apple watch band", "watch band">>, points |-> 3],
  [type |-> "glory-snap",          keywords |-> <<"glory snap">>, points |-> 4],
  [type |-> "federal-badge-small", keywords |-> <<"federal badge wallet small", "federal badge small">>, points |-> 4],
  [type |-> "western-long",        keywords |-> <<"western long wallet", "western long">>, points |-> 4],
  [type |-> "houstonian-long",     keywords |-> <<"houstonian long wallet", "houstonian long", "houstonian">>, points |-> 4],
  [type |-> "badge-long",          keywords |-> <<"badge long wallet", "badge long">>, points |-> 4],
  [type |-> "sugar-land-clutch",   keywords |-> <<"sugar land clutch", "sugar land">>, points |-> 5],
  [type |-> "western-bifold",      keywords |-> <<"western bifold wallet", "western bifold">>, points |-> 5],
  [type |-> "trinity-trifold",     keywords |-> <<"trinity trifold wallet", "trinity trifold", "trinity">>, points |-> 5],
  [type |-> "rio-grande",          keywords |-> <<"rio grande">>, points |-> 5],
  [type |-> "badge-bifold",        keywords |-> <<"badge bifold wallet", "badge bifold">>, points |-> 5],
  [type |-> "badge-clutch",        keywords |-> <<"badge clutch wallet", "badge clutch">>, points |-> 6],
  [type |-> "western-trifold",     keywords |-> <<"western trifold wallet", "western trifold">>, points |-> 6],
  [type |-> "big-bend",            keywords |-> <<"big bend">>, points |-> 6],
  [type |-> "badge-trifold",       keywords |-> <<"badge trifold wallet", "badge trifold">>, points |-> 6]
>>

\* Math.max(...keywords.map(k => k.length))
maxLength(m) ==
  CHOOSE n \in {Len(m.keywords[k]) : k \in DOMAIN m.keywords} :
    \A k \in DOMAIN m.keywords : Len(m.keywords[k]) <= n

\* Array.prototype.sort with (a, b) => maxLengthB - maxLengthA: stable, so
\* entries of equal longest keyword keep the order of the catalogue.
RECURSIVE insertSorted(_, _)
insertSorted(sorted, m) ==
  IF sorted = << >> THEN << m >>
  ELSE IF maxLength(sorted[Len(sorted)]) >= maxLength(m)
       THEN Append(sorted, m)
       ELSE Append(insertSorted(SubSeq(sorted, 1, Len(sorted) - 1), m),
                   sorted[Len(sorted)])

RECURSIVE sortMappings(_)
sortMappings(ms) ==
  IF ms = << >> THEN << >>
  ELSE insertSorted(sortMappings(SubSeq(ms, 1, Len(ms) - 1)), ms[Len(ms)])

sortedMappings == sortMappings(WALLET_MAPPINGS)

\* config.keywords.some(keyword => name.includes(keyword.toLowerCase()))
hasMatch(name, config) ==
  \E k \in DOMAIN config.keywords : includes(name, toLowerCase(config.keywords[k]))

\* getWalletType without name = productName.toLowerCase()
getWalletType_caseSensitive(productName) ==
  IF productName = NULL \/ Len(productName) = 0 THEN NULL
  ELSE LET hits == {k \in DOMAIN sortedMappings : hasMatch(productName, sortedMappings[k])}
       IN IF hits = {} THEN NULL
          ELSE sortedMappings[CHOOSE k \in hits : \A j \in hits : k <= j].type

\* the first entry of the sorted catalogue one of whose keywords the
\* lowercased product name includes; null for an empty name or no match
getWalletType(productName) ==
  IF productName = NULL \/ Len(productName) = 0 THEN NULL
  ELSE LET name == toLowerCase(productName)
           hits == {k \in DOMAIN sortedMappings : hasMatch(name, sortedMappings[k])}
       IN IF hits = {} THEN NULL
          ELSE sortedMappings[CHOOSE k \in hits : \A j \in hits : k <= j].type

\* WALLET_MAPPINGS[walletType]?.points || 0
getPointsForWalletType(walletType) ==
  LET hits == {k \in DOMAIN WALLET_MAPPINGS : WALLET_MAPPINGS[k].type = walletType}
  IN IF hits = {} THEN 0 ELSE WALLET_MAPPINGS[CHOOSE k \in hits : TRUE].points

(***************************************************************************)
(* Inbound requests.                                                       *)
(***************************************************************************)
SourceIds == 1..MaxOrders

\* Shopify numbers a shop's orders from 1001
OrderNumberOf(id) == 1000 + id

\* the titles of the line items of each upstream order
LineItemTitles(id) ==
  IF id = 1 THEN <<"Rio Grande", "Gift Wrap Service">>
  ELSE IF id = 2 THEN <<"Badge Trifold Wallet">>
  ELSE <<"Sugar Land Clutch">>

\* the product names that occur in payloads, each classified once
ProductNames == UNION { {LineItemTitles(id)[k] : k \in DOMAIN LineItemTitles(id)} : id \in SourceIds }

walletTypeOf == [name \in ProductNames |-> getWalletType(name)]

CancelTs == "2024-01-02T00:00:00Z"

\* what upstream reports of an order over its life: open, paid, cancelled
Versions ==
  { [financial_status |-> "pending",  cancelled_at |-> NULL],
    [financial_status |-> "paid",     cancelled_at |-> NULL],
    [financial_status |-> "refunded", cancelled_at |-> CancelTs] }

\* a parsed order payload (the fields the handlers read); customer is << >>
\* when the payload has none, else <<first_name, last_name>>, and
\* billing_address is << >> or <<name>>
Payloads ==
  { [id |-> id, order_number |-> OrderNumberOf(id),
     financial_status |-> v.financial_status, cancelled_at |-> v.cancelled_at,
     customer |-> <<"Ann", "Lee">>, billing_address |-> <<"Ann Lee">>,
     line_items |-> LineItemTitles(id)] :
      id \in SourceIds, v \in Versions }

\* what a payload can say of who ordered: no customer, or one whose names
\* are null, empty or given; no billing address, or one whose name is
Customers == {<< >>} \cup {<<first, last>> : first \in {NULL, "", "Ann"}, last \in {NULL, "", "Lee"}}
BillingAddresses == {<< >>} \cup {<<name>> : name \in {NULL, "", "Bea Ray"}}

\* the first order as it is first reported, with every such customer and
\* billing address
NamedPayloads ==
  { [p EXCEPT !.customer = c, !.billing_address = b] :
      p \in {p \in Payloads : p.id = 1 /\ p.financial_status = "pending"},
      c \in Customers, b \in BillingAddresses }

\* a request body: the JSON text of a payload, or text that is not JSON
Serialize(payload) == <<"json", payload>>
Garbage == <<"not json">>
JSONparse(rawBody) == rawBody[2]
NoHeader == <<"none">>

Secret == "SHOPIFY_WEBHOOK_SECRET"
OtherKey == "some other key"

\* createHmac('sha256', key).update(rawBody).digest('base64'): an injective
\* function of key and body
Hmac(key, rawBody) == <<"hmac", key, rawBody>>

RequestsWith(b) ==
  { [method |-> m, topic |-> t, rawBody |-> b, hmacHeader |-> h] :
      m \in {"POST", "GET"},
      t \in {"orders/create", "orders/updated", "products/create"},
      h \in {NoHeader, Hmac(Secret, b), Hmac(OtherKey, b)} }

Requests == UNION { RequestsWith(b) : b \in {Serialize(p) : p \in Payloads} \cup {Garbage} }

verifyShopifyWebhook(body, hmacHeader, secret) == Hmac(secret, body) = hmacHeader

Staff == {"alice", "bob"}
Today == "2024-01-01"
\* new Date().toISOString() in the staff call numbered n: time moves on
\* from one call to the next
toISOString(n) == "2024-01-01T12:00:0" \o toString(n) \o "Z"

VARIABLES
  orders,        \* table orders
  lineItems,     \* table order_line_items
  dailyPoints,   \* table daily_points
  reqs,          \* webhook invocations in flight (awaiting a storage call)
  response,      \* what the endpoint answered last
  calls,         \* completeWallet calls in flight (inside updateDailyPoints)
  returned,      \* what a staff call returned last
  feed,          \* ids of inserted line items whose INSERT event is undelivered
  won,           \* history: per line item, the claim calls that returned it as claimed
  credited,      \* history: per line item, the points passed to updateDailyPoints
  started,       \* history: the line items startWorkOnWallet returned as started
  classified,    \* what testMappings logged last: a product, its type, its points
  orderFeed,     \* ids of inserted orders whose INSERT event is undelivered
  procs,         \* processOrderLineItems invocations in flight
  nDeliveries,   \* requests delivered so far
  nCalls         \* staff calls made so far

vars == <<orders, lineItems, dailyPoints, reqs, response, calls, returned, feed,
          won, credited, started, classified, orderFeed, procs, nDeliveries, nCalls>>

db == <<orders, lineItems, dailyPoints>>

NoRow == [id |-> 0, points |-> 0, orders_completed |-> 0]

NoResponse == [topic |-> NULL, id |-> 0, status |-> 0, error |-> NULL]

NoReturn ==
  [op |-> NULL, item |-> 0, order |-> 0, items |-> {}, staff |-> NULL,
   success |-> FALSE, error |-> NULL, data |-> {}]

NoLog == [product |-> NULL, type |-> NULL, points |-> 0, status |-> NULL]

\* the tables are empty, nothing is in flight, nothing has happened
Empty ==
  /\ orders = << >>
  /\ lineItems = << >>
  /\ dailyPoints = << >>
  /\ reqs = {}
  /\ response = NoResponse
  /\ calls = {}
  /\ returned = NoReturn
  /\ feed = {}
  /\ won = << >>
  /\ credited = << >>
  /\ started = {}
  /\ orderFeed = {}
  /\ procs = {}
  /\ nDeliveries = 0
  /\ nCalls = 0

Init ==
  /\ Empty
  /\ classified = NoLog

(***************************************************************************)
(* Storage errors.  A unique-constraint violation is PostgreSQL 23505; a   *)
(* .single() that finds no row is PostgREST PGRST116; anything else (the   *)
(* store cannot be reached, a row is rejected) is StorageFailure.          *)
(***************************************************************************)
UniqueViolation == "23505"
NoRows == "PGRST116"
StorageFailure == "storage failure"

\* the uniqueness constraints on orders.shopify_order_id and orders.order_number
ViolatesUnique(row) ==
  \E k \in DOMAIN orders :
    \/ orders[k].shopify_order_id = row.shopify_order_id
    \/ orders[k].order_number = row.order_number

(***************************************************************************)
(* The webhook endpoint.                                                   *)
(***************************************************************************)
\* res.status(status).json(...) for the invocation q
Answer(q, status, error) ==
  /\ reqs' = reqs \ {q}
  /\ response' = [topic |-> q.topic, id |-> q.body.id, status |-> status, error |-> error]

\* the invocation q goes on to its next storage call
Proceed(q, next) == reqs' = (reqs \ {q}) \cup {next}

\* invocations in flight are told apart by a tag
FreeTag == CHOOSE n \in 1..(Cardinality(reqs) + 1) : \A q \in reqs : q.n # n

\* handler as it would be with the verification left out: whatever the
\* signature, the request is dispatched on its topic
handler_unverified(req) ==
  /\ nDeliveries' = nDeliveries + 1
  /\ IF req.method # "POST"
     THEN /\ response' = [NoResponse EXCEPT !.status = 405, !.error = "Method not allowed"]
          /\ UNCHANGED reqs
     ELSE IF req.rawBody = Garbage
     THEN /\ response' = [NoResponse EXCEPT !.status = 200, !.error = "SyntaxError"]
          /\ UNCHANGED reqs
     ELSE IF req.topic = "orders/create"
     THEN /\ reqs' = reqs \cup {[n |-> FreeTag, pc |-> "insert_order",
                                 topic |-> req.topic, body |-> JSONparse(req.rawBody),
                                 insertedOrder |-> 0]}
          /\ UNCHANGED response
     ELSE IF req.topic = "orders/updated"
     THEN /\ reqs' = reqs \cup {[n |-> FreeTag, pc |-> "update_order",
                                 topic |-> req.topic, body |-> JSONparse(req.rawBody),
                                 insertedOrder |-> 0]}
          /\ UNCHANGED response
     ELSE /\ response' = [NoResponse EXCEPT !.topic = req.topic, !.status = 200,
                                           !.id = JSONparse(req.rawBody).id]
          /\ UNCHANGED reqs
  /\ UNCHANGED <<db, calls, returned, feed, won, credited, nCalls, started, classified, orderFeed, procs>>

\* handler as it would be if the switch on the topic had handleOrderCreate
\* as its default
handler_defaultCreate(req) ==
  /\ nDeliveries' = nDeliveries + 1
  /\ IF req.method # "POST"
     THEN /\ response' = [NoResponse EXCEPT !.status = 405, !.error = "Method not allowed"]
          /\ UNCHANGED reqs
     ELSE IF req.rawBody = Garbage
     THEN /\ response' = [NoResponse EXCEPT !.status = 200, !.error = "SyntaxError"]
          /\ UNCHANGED reqs
     ELSE IF ~verifyShopifyWebhook(req.rawBody, req.hmacHeader, Secret)
     THEN /\ response' = [NoResponse EXCEPT !.status = 401, !.error = "Unauthorized"]
          /\ UNCHANGED reqs
     ELSE IF req.topic = "orders/updated"
     THEN /\ reqs' = reqs \cup {[n |-> FreeTag, pc |-> "update_order",
                                 topic |-> req.topic, body |-> JSONparse(req.rawBody),
                                 insertedOrder |-> 0]}
          /\ UNCHANGED response
     ELSE /\ reqs' = reqs \cup {[n |-> FreeTag, pc |-> "insert_order",
                                 topic |-> req.topic, body |-> JSONparse(req.rawBody),
                                 insertedOrder |-> 0]}
          /\ UNCHANGED response
  /\ UNCHANGED <<db, calls, returned, feed, won, credited, nCalls, started, classified, orderFeed, procs>>

\* handler, up to the call of handleOrderCreate / handleOrderUpdate; the
\* catch at its end answers 200 with the message of whatever was thrown
handler(req) ==
  /\ nDeliveries' = nDeliveries + 1
  /\ IF req.method # "POST"
     THEN /\ response' = [NoResponse EXCEPT !.status = 405, !.error = "Method not allowed"]
          /\ UNCHANGED reqs
     ELSE IF req.rawBody = Garbage
     THEN \* JSON.parse(rawBody) throws
          /\ response' = [NoResponse EXCEPT !.status = 200, !.error = "SyntaxError"]
          /\ UNCHANGED reqs
     ELSE IF ~verifyShopifyWebhook(req.rawBody, req.hmacHeader, Secret)
     THEN /\ response' = [NoResponse EXCEPT !.status = 401, !.error = "Unauthorized"]
          /\ UNCHANGED reqs
     ELSE IF req.topic = "orders/create"
     THEN /\ reqs' = reqs \cup {[n |-> FreeTag, pc |-> "insert_order",
                                 topic |-> req.topic, body |-> JSONparse(req.rawBody),
                                 insertedOrder |-> 0]}
          /\ UNCHANGED response
     ELSE IF req.topic = "orders/updated"
     THEN /\ reqs' = reqs \cup {[n |-> FreeTag, pc |-> "update_order",
                                 topic |-> req.topic, body |-> JSONparse(req.rawBody),
                                 insertedOrder |-> 0]}
          /\ UNCHANGED response
     ELSE /\ response' = [NoResponse EXCEPT !.topic = req.topic, !.status = 200,
                                           !.id = JSONparse(req.rawBody).id]
          /\ UNCHANGED reqs
  /\ UNCHANGED <<db, calls, returned, feed, won, credited, nCalls, started, classified, orderFeed, procs>>

\* x || ... takes the alternative for null and for the empty string
Falsy(x) == x = NULL \/ x = ""

\* customer ? `${customer.first_name || ''} ${customer.last_name || ''}`.trim()
\*          : billing_address?.name || 'Unknown'
customerName(shopifyOrder) ==
  LET customer == shopifyOrder.customer
      billing_address == shopifyOrder.billing_address
  IN IF customer # << >>
     THEN trim((IF Falsy(customer[1]) THEN "" ELSE customer[1]) \o " " \o
               (IF Falsy(customer[2]) THEN "" ELSE customer[2]))
     ELSE IF billing_address # << >> /\ ~Falsy(billing_address[1])
          THEN billing_address[1]
          ELSE "Unknown"

orderData(shopifyOrder) ==
  [shopify_order_id |-> toString(shopifyOrder.id),
   order_number |-> toString(shopifyOrder.order_number),
   status |-> "pending",
   orderer_name |-> customerName(shopifyOrder),
   points |-> 0,
   wallet_type |-> NULL,
   total_wallets |-> Len(shopifyOrder.line_items),
   shopify_metadata |-> [financial_status |-> shopifyOrder.financial_status,
                         cancelled_at |-> NULL]]

\* handleOrderCreate as it would be if a uniqueness conflict were recovered
\* by going on with the order that exists: its line items are inserted again
handleOrderCreate_insertOrder_goesOn(q, failure) ==
  /\ q.pc = "insert_order"
  /\ LET row == orderData(q.body) IN
       IF ViolatesUnique(row)
       THEN /\ Proceed(q, [q EXCEPT !.pc = "insert_items",
                                    !.insertedOrder =
                                       CHOOSE k \in DOMAIN orders :
                                         \/ orders[k].shopify_order_id = row.shopify_order_id
                                         \/ orders[k].order_number = row.order_number])
            /\ UNCHANGED <<orders, response, orderFeed>>
       ELSE IF failure
       THEN /\ Answer(q, 200, StorageFailure)
            /\ UNCHANGED <<orders, orderFeed>>
       ELSE /\ orders' = Append(orders, row)
            /\ orderFeed' = orderFeed \cup {Len(orders) + 1}
            /\ Proceed(q, [q EXCEPT !.pc = "insert_items",
                                    !.insertedOrder = Len(orders) + 1])
            /\ UNCHANGED response
  /\ UNCHANGED <<lineItems, dailyPoints, calls, returned, feed, won, credited,
                 nDeliveries, nCalls, started, classified, procs>>

\* handleOrderCreate: supabase.from('orders').insert([orderData]); an error
\* (the row violates uniqueness, or the store fails: `failure`) is thrown,
\* and handler's catch answers 200 with its message
handleOrderCreate_insertOrder(q, failure) ==
  /\ q.pc = "insert_order"
  /\ LET row == orderData(q.body) IN
       IF ViolatesUnique(row) \/ failure
       THEN /\ Answer(q, 200, IF ViolatesUnique(row) THEN UniqueViolation
                                                     ELSE StorageFailure)
            /\ UNCHANGED <<orders, orderFeed>>
       ELSE /\ orders' = Append(orders, row)
            /\ orderFeed' = orderFeed \cup {Len(orders) + 1}
            /\ Proceed(q, [q EXCEPT !.pc = "insert_items",
                                    !.insertedOrder = Len(orders) + 1])
            /\ UNCHANGED response
  /\ UNCHANGED <<lineItems, dailyPoints, calls, returned, feed, won, credited,
                 nDeliveries, nCalls, started, classified, procs>>

lineItemsData(shopifyOrder, insertedOrder) ==
  [k \in DOMAIN shopifyOrder.line_items |->
     [order_id |-> insertedOrder,
      order_number |-> orders[insertedOrder].order_number,
      product_name |-> shopifyOrder.line_items[k],
      wallet_type |-> NULL,
      points |-> 0,
      status |-> "pending",
      claimed_by |-> NULL,
      claimed_at |-> NULL,
      completed_at |-> NULL,
      voided_at |-> NULL]]

\* handleOrderCreate: supabase.from('order_line_items').insert(lineItemsData);
\* the rows are inserted together or, when the store fails (`failure`), not
\* at all, and the error is thrown.  Each inserted row raises an INSERT event on the change feed.
handleOrderCreate_insertLineItems(q, failure) ==
  /\ q.pc = "insert_items"
  /\ LET rows == lineItemsData(q.body, q.insertedOrder) IN
       IF failure
       THEN /\ Answer(q, 200, StorageFailure)
            /\ UNCHANGED <<lineItems, feed, won, credited>>
       ELSE /\ lineItems' = lineItems \o rows
            /\ feed' = feed \cup ((Len(lineItems) + 1)..(Len(lineItems) + Len(rows)))
            /\ won' = won \o [k \in DOMAIN rows |-> << >>]
            /\ credited' = credited \o [k \in DOMAIN rows |-> << >>]
            /\ Answer(q, 200, NULL)
  /\ UNCHANGED <<orders, dailyPoints, calls, returned, nDeliveries, nCalls, started, classified, orderFeed, procs>>

\* handleOrderUpdate: supabase.from('orders').update(updateData)
\*   .eq('order_number', ...); no matching row is not an error
handleOrderUpdate_updateOrder(q) ==
  /\ q.pc = "update_order"
  /\ orders' = [k \in DOMAIN orders |->
       IF orders[k].order_number = toString(q.body.order_number)
       THEN [orders[k] EXCEPT !.orderer_name = customerName(q.body),
                              !.shopify_metadata =
                                 [financial_status |-> q.body.financial_status,
                                  cancelled_at |-> q.body.cancelled_at]]
       ELSE orders[k]]
  /\ IF q.body.cancelled_at # NULL
     THEN Proceed(q, [q EXCEPT !.pc = "void_items"]) /\ UNCHANGED response
     ELSE Answer(q, 200, NULL)
  /\ UNCHANGED <<lineItems, dailyPoints, calls, returned, feed, won, credited,
                 nDeliveries, nCalls, started, classified, orderFeed, procs>>

\* the voiding update as it would be without .eq('order_number', ...)
handleOrderUpdate_voidLineItems_everyOrder(q) ==
  /\ q.pc = "void_items"
  /\ lineItems' = [k \in DOMAIN lineItems |->
       IF lineItems[k].status = "pending"
       THEN [lineItems[k] EXCEPT !.status = "void", !.voided_at = q.body.cancelled_at]
       ELSE lineItems[k]]
  /\ Answer(q, 200, NULL)
  /\ UNCHANGED <<orders, dailyPoints, calls, returned, feed, won, credited,
                 nDeliveries, nCalls, started, classified, orderFeed, procs>>

\* the voiding update as it would be without .eq('status', 'pending')
handleOrderUpdate_voidLineItems_anyStatus(q) ==
  /\ q.pc = "void_items"
  /\ lineItems' = [k \in DOMAIN lineItems |->
       IF lineItems[k].order_number = toString(q.body.order_number)
       THEN [lineItems[k] EXCEPT !.status = "void", !.voided_at = q.body.cancelled_at]
       ELSE lineItems[k]]
  /\ Answer(q, 200, NULL)
  /\ UNCHANGED <<orders, dailyPoints, calls, returned, feed, won, credited,
                 nDeliveries, nCalls, started, classified, orderFeed, procs>>

\* handleOrderUpdate: if (shopifyOrder.cancelled_at) update order_line_items
\*   set status 'void', voided_at where order_number = ... and status = 'pending'
handleOrderUpdate_voidLineItems(q) ==
  /\ q.pc = "void_items"
  /\ lineItems' = [k \in DOMAIN lineItems |->
       IF /\ lineItems[k].order_number = toString(q.body.order_number)
          /\ lineItems[k].status = "pending"
       THEN [lineItems[k] EXCEPT !.status = "void", !.voided_at = q.body.cancelled_at]
       ELSE lineItems[k]]
  /\ Answer(q, 200, NULL)
  /\ UNCHANGED <<orders, dailyPoints, calls, returned, feed, won, credited,
                 nDeliveries, nCalls, started, classified, orderFeed, procs>>

(***************************************************************************)
(* Classification on the change feed (realtimeHandler.js).                 *)
(***************************************************************************)
\* processLineItem as it would be if a product of no known type were given
\* a placeholder type instead of being left alone
processLineItem_placeholder(i) ==
  /\ i \in feed
  /\ feed' = feed \ {i}
  /\ LET walletType == walletTypeOf[lineItems[i].product_name] IN
     lineItems' =
       IF walletType = NULL THEN [lineItems EXCEPT ![i].wallet_type = "unknown"]
       ELSE [lineItems EXCEPT ![i].wallet_type = walletType,
                              ![i].points = getPointsForWalletType(walletType)]
  /\ UNCHANGED <<orders, dailyPoints, reqs, response, calls, returned, won, credited,
                 nDeliveries, nCalls, started, classified, orderFeed, procs>>

\* getUnmappedLineItems: select * from order_line_items where wallet_type is null
getUnmappedLineItems == {i \in DOMAIN lineItems : lineItems[i].wallet_type = NULL}

\* subscribeToLineItems, the INSERT callback: processLineItem(supabase,
\* payload.new) reads the product name of the inserted row and, when it maps
\* to a wallet type, updates wallet_type and points of the row with that id
processLineItem(i) ==
  /\ i \in feed
  /\ feed' = feed \ {i}
  /\ LET walletType == walletTypeOf[lineItems[i].product_name] IN
     lineItems' =
       IF walletType = NULL THEN lineItems
       ELSE [lineItems EXCEPT ![i].wallet_type = walletType,
                              ![i].points = getPointsForWalletType(walletType)]
  /\ UNCHANGED <<orders, dailyPoints, reqs, response, calls, returned, won, credited,
                 nDeliveries, nCalls, started, classified, orderFeed, procs>>

\* subscribeToOrders, the INSERT callback: processOrderLineItems(supabase,
\* payload.new.id) first selects the line items the order has at that moment
processOrderLineItems_select(orderId) ==
  /\ orderId \in orderFeed
  /\ orderFeed' = orderFeed \ {orderId}
  /\ procs' = procs \cup
       {[order |-> orderId,
         todo |-> {i \in DOMAIN lineItems : lineItems[i].order_id = orderId},
         totalPoints |-> 0]}
  /\ UNCHANGED <<db, reqs, response, calls, returned, feed, won, credited, started,
                 classified, nDeliveries, nCalls>>

\* processOrderLineItems: one of the processLineItem calls of its Promise.all;
\* a row of no known type gives null, any other gives the updated row, whose
\* points are added to the total
processOrderLineItems_processLineItem(proc, i) ==
  /\ i \in proc.todo
  /\ LET walletType == walletTypeOf[lineItems[i].product_name]
         points == IF walletType = NULL THEN 0 ELSE getPointsForWalletType(walletType)
     IN /\ lineItems' =
             IF walletType = NULL THEN lineItems
             ELSE [lineItems EXCEPT ![i].wallet_type = walletType, ![i].points = points]
        /\ procs' = (procs \ {proc}) \cup
             {[proc EXCEPT !.todo = @ \ {i}, !.totalPoints = @ + points]}
  /\ UNCHANGED <<orders, dailyPoints, reqs, response, calls, returned, feed, won,
                 credited, started, classified, orderFeed, nDeliveries, nCalls>>

\* processOrderLineItems: update orders set points = totalPoints where id = orderId
processOrderLineItems_updateOrder(proc) ==
  /\ proc.todo = {}
  /\ orders' = [orders EXCEPT ![proc.order].points = proc.totalPoints]
  /\ procs' = procs \ {proc}
  /\ UNCHANGED <<lineItems, dailyPoints, reqs, response, calls, returned, feed, won,
                 credited, started, classified, orderFeed, nDeliveries, nCalls>>

(***************************************************************************)
(* testMappings: the classifier applied to a list of product names.        *)
(***************************************************************************)
\* the product names testMappings lists, one per entry of the catalogue and
\* in the catalogue's order
testProducts == <<
  "Peyton", "The Richmond", "Keller Money Clip", "The Georgetown", "Pflugerville",
  "Minimalist Badge Wallet", "Knife Sheath", "Keychain", "Passport Holder", "Victory",
  "Western Vertical Wallet", "Valet Tray", "Tyler Vertical Wallet", "Mansfield",
  "Leather Field Notes Cover", "Badge Vertical Wallet", "Apple Watch Leather Band",
  "Glory Snap", "Federal Badge Wallet Small", "Western Long Wallet",
  "The Houstonian Long Wallet", "Badge Long Wallet", "Sugar Land Clutch",
  "Western Bifold Wallet", "Trinity Trifold Wallet", "Rio Grande", "Badge Bifold Wallet",
  "Badge Clutch Wallet", "Western Trifold Wallet", "Big Bend", "Badge Trifold Wallet"
>>

\* product names that hold phrases of two catalogue entries: the last keyword
\* of one followed by the first keyword of another
TwoPhraseNames ==
  { WALLET_MAPPINGS[a].keywords[Len(WALLET_MAPPINGS[a].keywords)] \o " " \o
    WALLET_MAPPINGS[b].keywords[1] : a, b \in DOMAIN WALLET_MAPPINGS }

\* the product names classified
Products == {testProducts[k] : k \in DOMAIN testProducts} \cup TwoPhraseNames

\* the body of testMappings' forEach for one product: type, points and the
\* mark it logs
testMappings ==
  /\ classified.status = "listed"
  /\ LET type == getWalletType(classified.product)
         points == IF type # NULL THEN getPointsForWalletType(type) ELSE 0
     IN classified' = [classified EXCEPT !.type = type, !.points = points,
                                         !.status = IF type # NULL THEN "match"
                                                                   ELSE "NO MATCH"]
  /\ UNCHANGED <<db, reqs, response, calls, returned, feed, won, credited, started,
                 nDeliveries, nCalls, orderFeed, procs>>

(***************************************************************************)
(* Staff calls (realtimeHandler.js).  A call returns {success: true, data} *)
(* or {success: false, error}; data is kept as the ids of its rows.        *)
(***************************************************************************)
Return(op, item, order, items, staff, success, error, data) ==
  returned' = [op |-> op, item |-> item, order |-> order, items |-> items,
               staff |-> staff, success |-> success, error |-> error, data |-> data]

claimed(row, sewerId) ==
  [row EXCEPT !.status = "claimed", !.claimed_by = sewerId,
              !.claimed_at = toISOString(nCalls + 1)]

\* history: the call `op` of `sewerId` returned the rows `hit` as claimed
Won(hit, op, sewerId) ==
  won' = [k \in DOMAIN won |->
            IF k \in hit THEN Append(won[k], [staff |-> sewerId, op |-> op]) ELSE won[k]]

\* claimWallet as it would be without .eq('status', 'pending')
claimWallet_anyStatus(lineItemId, sewerId) ==
  /\ lineItemId \in DOMAIN lineItems
  /\ nCalls' = nCalls + 1
  /\ lineItems' = [lineItems EXCEPT ![lineItemId] = claimed(@, sewerId)]
  /\ Return("claimWallet", lineItemId, 0, {}, sewerId, TRUE, NULL, {lineItemId})
  /\ Won({lineItemId}, "claimWallet", sewerId)
  /\ UNCHANGED <<orders, dailyPoints, reqs, response, calls, feed, credited, nDeliveries, started, classified, orderFeed, procs>>

\* claimWallet: update ... where id = lineItemId and status = 'pending',
\* .select().single(): no row updated is the error PGRST116
claimWallet(lineItemId, sewerId) ==
  /\ lineItemId \in DOMAIN lineItems
  /\ nCalls' = nCalls + 1
  /\ IF lineItems[lineItemId].status = "pending"
     THEN /\ lineItems' = [lineItems EXCEPT ![lineItemId] = claimed(@, sewerId)]
          /\ Return("claimWallet", lineItemId, 0, {}, sewerId, TRUE, NULL, {lineItemId})
          /\ Won({lineItemId}, "claimWallet", sewerId)
     ELSE /\ UNCHANGED <<lineItems, won>>
          /\ Return("claimWallet", lineItemId, 0, {}, sewerId, FALSE, NoRows, {})
  /\ UNCHANGED <<orders, dailyPoints, reqs, response, calls, feed, credited, nDeliveries, started, classified, orderFeed, procs>>

\* the update of a batch claim as it would be without .eq('status', 'pending')
claimRows_anyStatus(among, sewerId) ==
  [k \in DOMAIN lineItems |->
     IF k \in among THEN claimed(lineItems[k], sewerId) ELSE lineItems[k]]

\* the update of a batch claim: the rows of `among` that are pending
claimRows(among, sewerId) ==
  [k \in DOMAIN lineItems |->
     IF k \in among /\ lineItems[k].status = "pending"
     THEN claimed(lineItems[k], sewerId) ELSE lineItems[k]]

\* claimEntireOrder: update ... where order_id = orderId and status = 'pending'
claimEntireOrder(orderId, sewerId) ==
  /\ orderId \in DOMAIN orders
  /\ nCalls' = nCalls + 1
  /\ LET among == {k \in DOMAIN lineItems : lineItems[k].order_id = orderId} IN
     /\ lineItems' = claimRows(among, sewerId)
     /\ Return("claimEntireOrder", 0, orderId, {}, sewerId, TRUE, NULL,
               {k \in among : lineItems[k].status = "pending"})
     /\ Won({k \in among : lineItems[k].status = "pending"}, "claimEntireOrder", sewerId)
  /\ UNCHANGED <<orders, dailyPoints, reqs, response, calls, feed, credited, nDeliveries, started, classified, orderFeed, procs>>

\* claimPartialOrder: update ... where id in lineItemIds and status = 'pending'
claimPartialOrder(lineItemIds, sewerId) ==
  /\ lineItemIds \subseteq DOMAIN lineItems
  /\ nCalls' = nCalls + 1
  /\ lineItems' = claimRows(lineItemIds, sewerId)
  /\ Return("claimPartialOrder", 0, 0, lineItemIds, sewerId, TRUE, NULL,
            {k \in lineItemIds : lineItems[k].status = "pending"})
  /\ Won({k \in lineItemIds : lineItems[k].status = "pending"}, "claimPartialOrder", sewerId)
  /\ UNCHANGED <<orders, dailyPoints, reqs, response, calls, feed, credited, nDeliveries, started, classified, orderFeed, procs>>

\* startWorkOnWallet as it would be without .eq('status', 'claimed')
startWorkOnWallet_anyStatus(lineItemId) ==
  /\ lineItemId \in DOMAIN lineItems
  /\ nCalls' = nCalls + 1
  /\ lineItems' = [lineItems EXCEPT ![lineItemId].status = "in_progress"]
  /\ started' = started \cup {lineItemId}
  /\ Return("startWorkOnWallet", lineItemId, 0, {}, NULL, TRUE, NULL, {lineItemId})
  /\ UNCHANGED <<orders, dailyPoints, reqs, response, calls, feed, won, credited, nDeliveries, classified, orderFeed, procs>>

\* startWorkOnWallet as it would be without .single(): an update that
\* matches no row is then no error
startWorkOnWallet_noSingle(lineItemId) ==
  /\ lineItemId \in DOMAIN lineItems
  /\ nCalls' = nCalls + 1
  /\ IF lineItems[lineItemId].status = "claimed"
     THEN /\ lineItems' = [lineItems EXCEPT ![lineItemId].status = "in_progress"]
          /\ started' = started \cup {lineItemId}
          /\ Return("startWorkOnWallet", lineItemId, 0, {}, NULL, TRUE, NULL, {lineItemId})
     ELSE /\ UNCHANGED <<lineItems, started>>
          /\ Return("startWorkOnWallet", lineItemId, 0, {}, NULL, TRUE, NULL, {})
  /\ UNCHANGED <<orders, dailyPoints, reqs, response, calls, feed, won, credited, nDeliveries, classified, orderFeed, procs>>

\* startWorkOnWallet: update ... where id = lineItemId and status = 'claimed'
startWorkOnWallet(lineItemId) ==
  /\ lineItemId \in DOMAIN lineItems
  /\ nCalls' = nCalls + 1
  /\ IF lineItems[lineItemId].status = "claimed"
     THEN /\ lineItems' = [lineItems EXCEPT ![lineItemId].status = "in_progress"]
          /\ started' = started \cup {lineItemId}
          /\ Return("startWorkOnWallet", lineItemId, 0, {}, NULL, TRUE, NULL, {lineItemId})
     ELSE /\ UNCHANGED <<lineItems, started>>
          /\ Return("startWorkOnWallet", lineItemId, 0, {}, NULL, FALSE, NoRows, {})
  /\ UNCHANGED <<orders, dailyPoints, reqs, response, calls, feed, won, credited, nDeliveries, classified, orderFeed, procs>>

\* completeWallet as it would be without .in('status', ['claimed', 'in_progress'])
completeWallet_anyStatus(lineItemId) ==
  /\ lineItemId \in DOMAIN lineItems
  /\ nCalls' = nCalls + 1
  /\ LET data == [lineItems[lineItemId] EXCEPT !.status = "completed",
                                               !.completed_at = toISOString(nCalls + 1)]
     IN /\ lineItems' = [lineItems EXCEPT ![lineItemId] = data]
        /\ IF data.claimed_by # NULL /\ data.points > 0
           THEN /\ calls' = calls \cup
                      {[pc |-> "select_daily", item |-> lineItemId,
                        sewerId |-> data.claimed_by, points |-> data.points,
                        existing |-> NoRow]}
                /\ credited' = [credited EXCEPT ![lineItemId] = Append(@, data.points)]
                /\ UNCHANGED returned
           ELSE /\ Return("completeWallet", lineItemId, 0, {}, NULL, TRUE, NULL,
                          {lineItemId})
                /\ UNCHANGED <<calls, credited>>
  /\ UNCHANGED <<orders, dailyPoints, reqs, response, feed, won, nDeliveries, started, classified, orderFeed, procs>>

\* completeWallet as it would be without the test data.points > 0
completeWallet_anyPoints(lineItemId) ==
  /\ lineItemId \in DOMAIN lineItems
  /\ nCalls' = nCalls + 1
  /\ IF lineItems[lineItemId].status \in {"claimed", "in_progress"}
     THEN LET data == [lineItems[lineItemId] EXCEPT !.status = "completed",
                                                    !.completed_at = toISOString(nCalls + 1)]
          IN /\ lineItems' = [lineItems EXCEPT ![lineItemId] = data]
             /\ IF data.claimed_by # NULL
                THEN /\ calls' = calls \cup
                           {[pc |-> "select_daily", item |-> lineItemId,
                             sewerId |-> data.claimed_by, points |-> data.points,
                             existing |-> NoRow]}
                     /\ credited' = [credited EXCEPT ![lineItemId] = Append(@, data.points)]
                     /\ UNCHANGED returned
                ELSE /\ Return("completeWallet", lineItemId, 0, {}, NULL, TRUE, NULL,
                               {lineItemId})
                     /\ UNCHANGED <<calls, credited>>
     ELSE /\ UNCHANGED <<lineItems, calls, credited>>
          /\ Return("completeWallet", lineItemId, 0, {}, NULL, FALSE, NoRows, {})
  /\ UNCHANGED <<orders, dailyPoints, reqs, response, feed, won, nDeliveries, started, classified, orderFeed, procs>>

\* completeWallet, up to the call of updateDailyPoints: update ... where
\* id = lineItemId and status in ('claimed', 'in_progress'); then, if the
\* updated row has claimed_by and points > 0, updateDailyPoints is awaited
completeWallet(lineItemId) ==
  /\ lineItemId \in DOMAIN lineItems
  /\ nCalls' = nCalls + 1
  /\ IF lineItems[lineItemId].status \in {"claimed", "in_progress"}
     THEN LET data == [lineItems[lineItemId] EXCEPT !.status = "completed",
                                                    !.completed_at = toISOString(nCalls + 1)]
          IN /\ lineItems' = [lineItems EXCEPT ![lineItemId] = data]
             /\ IF data.claimed_by # NULL /\ data.points > 0
                THEN /\ calls' = calls \cup
                           {[pc |-> "select_daily", item |-> lineItemId,
                             sewerId |-> data.claimed_by, points |-> data.points,
                             existing |-> NoRow]}
                     /\ credited' = [credited EXCEPT ![lineItemId] = Append(@, data.points)]
                     /\ UNCHANGED returned
                ELSE /\ Return("completeWallet", lineItemId, 0, {}, NULL, TRUE, NULL,
                               {lineItemId})
                     /\ UNCHANGED <<calls, credited>>
     ELSE /\ UNCHANGED <<lineItems, calls, credited>>
          /\ Return("completeWallet", lineItemId, 0, {}, NULL, FALSE, NoRows, {})
  /\ UNCHANGED <<orders, dailyPoints, reqs, response, feed, won, nDeliveries, started, classified, orderFeed, procs>>

\* updateDailyPoints: select * from daily_points where sewer_id = sewerId and
\* date = today, .single(): data is the row when exactly one matches, else null
updateDailyPoints_select(call) ==
  /\ call.pc = "select_daily"
  /\ LET rows == {k \in DOMAIN dailyPoints :
                    /\ dailyPoints[k].sewer_id = call.sewerId
                    /\ dailyPoints[k].date = Today}
         existing == IF Cardinality(rows) = 1
                     THEN LET k == CHOOSE k \in rows : TRUE
                          IN [id |-> k, points |-> dailyPoints[k].points,
                              orders_completed |-> dailyPoints[k].orders_completed]
                     ELSE NoRow
     IN calls' = (calls \ {call}) \cup
                   {[call EXCEPT !.pc = "write_daily", !.existing = existing]}
  /\ UNCHANGED <<db, reqs, response, returned, feed, won, credited, nDeliveries, nCalls, started, classified, orderFeed, procs>>

\* updateDailyPoints: if (existing) update the row with id existing.id to
\* existing.points + points and existing.orders_completed + 1, else insert a
\* new row; the result of the write is not looked at, so when the store fails
\* it nothing is written and nothing else differs; completeWallet then
\* returns {success: true, data}
updateDailyPoints_write(call, failure) ==
  /\ call.pc = "write_daily"
  /\ dailyPoints' =
       IF failure THEN dailyPoints
       ELSE IF call.existing # NoRow
       THEN [dailyPoints EXCEPT
               ![call.existing.id].points = call.existing.points + call.points,
               ![call.existing.id].orders_completed = call.existing.orders_completed + 1]
       ELSE Append(dailyPoints, [sewer_id |-> call.sewerId, date |-> Today,
                                 points |-> call.points, orders_completed |-> 1])
  /\ calls' = calls \ {call}
  /\ Return("completeWallet", call.item, 0, {}, NULL, TRUE, NULL, {call.item})
  /\ UNCHANGED <<orders, lineItems, reqs, response, feed, won, credited, nDeliveries, nCalls, started, classified, orderFeed, procs>>

(***************************************************************************)
(* Specifications.                                                         *)
(***************************************************************************)
\* one of `requests` arrives, while fewer than `budget` have arrived and
\* fewer than `inflight` invocations are in flight
Deliver(requests, budget, inflight) ==
  /\ nDeliveries < budget
  /\ Cardinality(reqs) < inflight
  /\ \E req \in requests : handler(req)

\* the storage calls of the endpoint; `failures` are the outcomes of the
\* store the specification considers (FALSE: the insert is carried out)
Ingestion(failures) ==
  \/ \E q \in reqs, failure \in failures : handleOrderCreate_insertOrder(q, failure)
  \/ \E q \in reqs, failure \in failures : handleOrderCreate_insertLineItems(q, failure)
  \/ \E q \in reqs : handleOrderUpdate_updateOrder(q)
  \/ \E q \in reqs : handleOrderUpdate_voidLineItems(q)

\* the lists of ids claimPartialOrder is called with: several rows
Batches == {ids \in SUBSET DOMAIN lineItems : Cardinality(ids) >= 2}

Call ==
  /\ nCalls < MaxCalls
  /\ Cardinality(calls) < NumCallers
  /\ \/ \E i \in DOMAIN lineItems, s \in Staff : claimWallet(i, s)
     \/ \E o \in DOMAIN orders, s \in Staff : claimEntireOrder(o, s)
     \/ \E ids \in Batches, s \in Staff : claimPartialOrder(ids, s)
     \/ \E i \in DOMAIN lineItems : startWorkOnWallet(i)
     \/ \E i \in DOMAIN lineItems : completeWallet(i)

\* the storage calls of updateDailyPoints; `failures` as for Ingestion
Ledger(failures) ==
  \/ \E call \in calls : updateDailyPoints_select(call)
  \/ \E call \in calls, failure \in failures : updateDailyPoints_write(call, failure)

\* the endpoint alone: every kind of request, a store that can fail
NextIngest ==
  \/ Deliver(Requests, MaxDeliveries, NumDeliverers)
  \/ Ingestion(BOOLEAN)

SpecIngest == Init /\ [][NextIngest]_vars

\* the events of an order's life as upstream signs and sends them: its
\* creation, and its cancellation
OrderEvents ==
  { req \in Requests :
      /\ req.method = "POST"
      /\ req.rawBody # Garbage
      /\ req.hmacHeader = Hmac(Secret, req.rawBody)
      /\ \/ /\ req.topic = "orders/create"
            /\ JSONparse(req.rawBody).financial_status = "pending"
         \/ /\ req.topic = "orders/updated"
            /\ JSONparse(req.rawBody).cancelled_at # NULL }

\* the whole system: order events one at a time over a store that works,
\* classification on the change feed, and staff calls
Next ==
  \/ Deliver(OrderEvents, MaxOrderEvents, 1)
  \/ Ingestion({FALSE})
  \/ \E i \in feed : processLineItem(i)
  \/ Call
  \/ Ledger({FALSE})

Spec == Init /\ [][Next]_vars

\* one sewer's ledger: the orders are created in the order of their numbers,
\* their items are classified, the sewer claims items in batches and
\* completes them, over a store whose ledger writes can fail
Creations ==
  {req \in OrderEvents : /\ req.topic = "orders/create"
                         /\ JSONparse(req.rawBody).id = Len(orders) + 1}

Sewer == "alice"

NextLedger ==
  \/ Deliver(Creations, MaxOrders, 1)
  \/ \E q \in reqs : handleOrderCreate_insertOrder(q, FALSE)
  \/ \E q \in reqs : handleOrderCreate_insertLineItems(q, FALSE)
  \/ \E i \in feed : processLineItem(i)
  \/ /\ nCalls < MaxLedgerCalls
     /\ Cardinality(calls) < NumCallers
     /\ \/ \E ids \in Batches : claimPartialOrder(ids, Sewer)
        \/ \E i \in DOMAIN lineItems : completeWallet(i)
  \/ Ledger(BOOLEAN)

SpecLedger == Init /\ [][NextLedger]_vars

\* the requests upstream signs: any topic, any version of any order
Authentic ==
  { req \in Requests :
      /\ req.method = "POST"
      /\ req.rawBody # Garbage
      /\ req.hmacHeader = Hmac(Secret, req.rawBody) }

\* the endpoint under authentic traffic over a store that works: creations
\* and updates of several orders, up to NumDeliverers at a time
NextUpdates ==
  \/ Deliver(Authentic, MaxUpdateEvents, NumDeliverers)
  \/ Ingestion({FALSE})

SpecUpdates == Init /\ [][NextUpdates]_vars

\* who ordered: the first order is created and updated, one request at a
\* time, with every customer and billing address a payload can carry
NameEvents ==
  { req \in UNION { RequestsWith(Serialize(p)) : p \in NamedPayloads } :
      /\ req.method = "POST"
      /\ req.hmacHeader = Hmac(Secret, req.rawBody)
      /\ req.topic \in {"orders/create", "orders/updated"} }

NextNames ==
  \/ Deliver(NameEvents, MaxNameEvents, 1)
  \/ \E q \in reqs : handleOrderCreate_insertOrder(q, FALSE)
  \/ \E q \in reqs : handleOrderCreate_insertLineItems(q, FALSE)
  \/ \E q \in reqs : handleOrderUpdate_updateOrder(q)

SpecNames == Init /\ [][NextNames]_vars

\* the totals of orders: the orders are created in the order of their
\* numbers over a store that works, and both subscriptions classify
NextTotals ==
  \/ Deliver(Creations, MaxOrders, 1)
  \/ \E q \in reqs : handleOrderCreate_insertOrder(q, FALSE)
  \/ \E q \in reqs : handleOrderCreate_insertLineItems(q, FALSE)
  \/ \E i \in feed : processLineItem(i)
  \/ \E o \in orderFeed : processOrderLineItems_select(o)
  \/ \E proc \in procs, i \in DOMAIN lineItems : processOrderLineItems_processLineItem(proc, i)
  \/ \E proc \in procs : processOrderLineItems_updateOrder(proc)

SpecTotals == Init /\ [][NextTotals]_vars

\* the classifier alone: testMappings over one of the product names
InitClassify ==
  /\ Empty
  /\ \E product \in Products :
       classified = [NoLog EXCEPT !.product = product, !.status = "listed"]

SpecClassify == InitClassify /\ [][testMappings]_vars

(***************************************************************************)
(* Properties.                                                             *)
(***************************************************************************)
\* the orders stored for the upstream order `id`
OrdersOf(id) == {k \in DOMAIN orders : orders[k].shopify_order_id = toString(id)}

\* the product names of the line items of the order k, in the order stored
LineItemNamesOf(k) ==
  LET rows == SelectSeq(lineItems, LAMBDA r : r.order_id = k)
  IN [j \in DOMAIN rows |-> rows[j].product_name]

\* the line items `sewerId` holds completed and credited
CreditedTo(sewerId) ==
  {i \in DOMAIN lineItems : /\ lineItems[i].status = "completed"
                            /\ lineItems[i].claimed_by = sewerId
                            /\ credited[i] # << >>}

RECURSIVE SumCredited(_)
SumCredited(items) ==
  IF items = {} THEN 0
  ELSE LET i == CHOOSE i \in items : TRUE
       IN credited[i][1] + SumCredited(items \ {i})

C2_SecondCompleteFails ==
  /\ [](\A i \in DOMAIN credited : Len(credited[i]) <= 1)
  /\ [][\A i \in DOMAIN lineItems :
          lineItems[i].status = "completed" =>
            /\ lineItems'[i].status = "completed"
            /\ lineItems'[i].completed_at = lineItems[i].completed_at
            /\ credited'[i] = credited[i]
            /\ \A c \in calls' \ calls : c.item = i => c.pc # "select_daily"
            /\ completeWallet(i) =>
                 /\ returned'.op = "completeWallet"
                 /\ returned'.item = i
                 /\ ~returned'.success
                 /\ returned'.error = NoRows]_vars

\* C2 witness: a second completeWallet on an item returned the no-row error
\* while the first call was still inside updateDailyPoints; the item is
\* completed and credited once
C2_SecondRefused ==
  /\ returned.op = "completeWallet"
  /\ ~returned.success
  /\ returned.error = NoRows
  /\ lineItems[returned.item].status = "completed"
  /\ Len(credited[returned.item]) = 1
  /\ \E c \in calls : c.item = returned.item

\* C3: ingesting the payload of an upstream order again through orders/create
\* leaves one Order row for it and the line items the first ingestion left:
\* there is never a second order for a source order id, an order's line items
\* are its payload's, once each, and a create that finds the order stored
\* changes neither table and ends with an answer.
C3_ReingestionIsIdempotent ==
  /\ [](\A id \in SourceIds :
          /\ Cardinality(OrdersOf(id)) <= 1
          /\ \A k \in OrdersOf(id) : LineItemNamesOf(k) \in {<< >>, LineItemTitles(id)})
  /\ [][\A q \in reqs :
          ( /\ q.pc = "insert_order"
            /\ OrdersOf(q.body.id) # {}
            /\ \E failure \in BOOLEAN : handleOrderCreate_insertOrder(q, failure) )
          => /\ UNCHANGED <<orders, lineItems>>
             /\ reqs' = reqs \ {q}]_vars

\* C3 witness: a second orders/create for an order that is stored with its
\* line items has been answered with the uniqueness conflict
C3_Reingested ==
  /\ response.topic = "orders/create"
  /\ response.error = UniqueViolation
  /\ reqs = {}
  /\ \E k \in OrdersOf(response.id) : LineItemNamesOf(k) = LineItemTitles(response.id)

\* C4: once no completion is in flight, the ledger holds for each staff member
\* a record of today whose points are the sum of the points credited for the
\* items that member completed and whose orders_completed is their number.
C4_LedgerReflectsEveryCompletion ==
  calls = {} =>
    \A s \in Staff :
      CreditedTo(s) # {} =>
        \E k \in DOMAIN dailyPoints :
          /\ dailyPoints[k].sewer_id = s
          /\ dailyPoints[k].date = Today
          /\ dailyPoints[k].points = SumCredited(CreditedTo(s))
          /\ dailyPoints[k].orders_completed = Cardinality(CreditedTo(s))

\* C5: the voiding step of an update that carries a cancellation timestamp
\* turns every pending line item of the order to void with voided_at set to
\* that timestamp and changes nothing else: the order's claimed, in_progress
\* and completed items, and every other order's items, stay as they are; and
\* the update of an order with such a payload always goes on to that step.
C5_CancellationVoidsOnlyPending ==
  [][\A q \in reqs :
       /\ handleOrderUpdate_voidLineItems(q) =>
            /\ q.body.cancelled_at # NULL
            /\ DOMAIN lineItems' = DOMAIN lineItems
            /\ \A k \in DOMAIN lineItems :
                 IF /\ lineItems[k].order_id \in OrdersOf(q.body.id)
                    /\ lineItems[k].status = "pending"
                 THEN lineItems'[k] = [lineItems[k] EXCEPT !.status = "void",
                                                           !.voided_at = q.body.cancelled_at]
                 ELSE lineItems'[k] = lineItems[k]
       /\ (handleOrderUpdate_updateOrder(q) /\ q.body.cancelled_at # NULL) =>
            \E n \in reqs' : n.pc = "void_items" /\ n.body = q.body]_vars

\* C5 witness: a cancellation has been answered; of two line items of the
\* cancelled order one is void with the cancellation timestamp and the other
\* is still claimed by the staff member who claimed it
C5_OnlyPendingVoided ==
  /\ response.topic = "orders/updated"
  /\ response.status = 200
  /\ \E k, j \in DOMAIN lineItems :
       /\ lineItems[k].order_id = lineItems[j].order_id
       /\ lineItems[k].order_id \in OrdersOf(response.id)
       /\ lineItems[k].status = "void"
       /\ lineItems[k].voided_at = CancelTs
       /\ lineItems[j].status = "claimed"
       /\ lineItems[j].claimed_by = "alice"
       /\ lineItems[j].voided_at = NULL

\* C6: once the order of a Rio Grande wallet and a Gift Wrap Service has been
\* ingested and alice has claimed, started and completed the wallet item (and
\* claimed nothing else), the ledger holds alice's record of today with 5
\* points and 1 order completed.
C6_EndToEndCredit ==
  \A i \in DOMAIN lineItems :
    ( /\ lineItems[i].product_name = "Rio Grande"
      /\ LineItemNamesOf(lineItems[i].order_id) = <<"Rio Grande", "Gift Wrap Service">>
      /\ lineItems[i].status = "completed"
      /\ lineItems[i].claimed_by = "alice"
      /\ won[i] = << [staff |-> "alice", op |-> "claimWallet"] >>
      /\ i \in started
      /\ \A j \in DOMAIN lineItems \ {i} : lineItems[j].claimed_by # "alice"
      /\ calls = {} )
    => \E k \in DOMAIN dailyPoints :
         /\ dailyPoints[k].sewer_id = "alice"
         /\ dailyPoints[k].date = Today
         /\ dailyPoints[k].points = 5
         /\ dailyPoints[k].orders_completed = 1

\* C7: when no invocation of the endpoint is in flight, every stored order
\* has the full set of its payload's line items.
C7_NoOrderWithoutItsLineItems ==
  reqs = {} =>
    \A id \in SourceIds : \A k \in OrdersOf(id) : LineItemNamesOf(k) = LineItemTitles(id)

\* C8: an orders/create for an upstream order that is already stored is
\* handled as an update: the stored order's metadata takes the payload's
\* financial status, and the uniqueness conflict is not what the operation
\* ends with.
C8_DuplicateCreateHandledAsUpdate ==
  [][\A q \in reqs :
       ( /\ q.pc = "insert_order"
         /\ OrdersOf(q.body.id) # {}
         /\ handleOrderCreate_insertOrder(q, FALSE) )
       => /\ response'.error # UniqueViolation
          /\ \A k \in OrdersOf(q.body.id) :
               orders'[k].shopify_metadata.financial_status = q.body.financial_status]_vars

\* C9: an orders/updated that has been answered without an error leaves an
\* order stored for the upstream order it was about (created by the fallback
\* if it was not there).
C9_UpdateFallsBackToCreate ==
  ( /\ response.topic = "orders/updated"
    /\ response.status = 200
    /\ response.error = NULL )
  => OrdersOf(response.id) # {}

\* the POSTs whose body parses and whose signature does not verify
Unverified ==
  { req \in Requests :
      /\ req.method = "POST"
      /\ req.rawBody # Garbage
      /\ ~verifyShopifyWebhook(req.rawBody, req.hmacHeader, Secret) }

C11_ResponseContract ==
  [][/\ \A req \in Requests :
          handler(req) =>
            IF req.method # "POST" THEN response'.status = 405
            ELSE IF ~verifyShopifyWebhook(req.rawBody, req.hmacHeader, Secret)
                 THEN response'.status = 401
                 ELSE req.rawBody # Garbage => (reqs' # reqs \/ response'.status = 200)
     /\ \A q \in reqs : reqs' = reqs \ {q} => response'.status = 200]_vars

\* the status changes of a line item the state machine has
Transitions ==
  { <<"pending", "claimed">>, <<"claimed", "in_progress">>, <<"claimed", "completed">>,
    <<"in_progress", "completed">>, <<"pending", "void">> }

\* C12: whatever claims, batch claims, starts, completions and cancellations
\* do and however they interleave, a line item is stored as pending, no line
\* item disappears, and every step that changes a line item's status takes it
\* from pending to claimed, from claimed to in_progress, from claimed or
\* in_progress to completed, or from pending to void.
C12_OnlyLegalTransitions ==
  [][/\ DOMAIN lineItems \subseteq DOMAIN lineItems'
     /\ \A i \in DOMAIN lineItems' \ DOMAIN lineItems : lineItems'[i].status = "pending"
     /\ \A i \in DOMAIN lineItems :
          lineItems'[i].status # lineItems[i].status =>
            <<lineItems[i].status, lineItems'[i].status>> \in Transitions]_vars

\* C12 witness: one line item has gone from pending through claimed and
\* in_progress to completed, and another of the same order from pending to void
C12_WalkedThrough ==
  \E i, j \in DOMAIN lineItems :
    /\ lineItems[i].order_id = lineItems[j].order_id
    /\ lineItems[i].status = "completed"
    /\ i \in started
    /\ won[i] # << >>
    /\ lineItems[j].status = "void"

\* what a batch claim of the rows `among` by `sewerId` does in a step: it
\* returns success with the targeted rows that were pending, those rows are
\* now claimed by the caller, and every other row is as it was
BatchOutcome(among, sewerId) ==
  /\ returned'.success
  /\ returned'.error = NULL
  /\ returned'.staff = sewerId
  /\ returned'.data = {k \in among : lineItems[k].status = "pending"}
  /\ DOMAIN lineItems' = DOMAIN lineItems
  /\ \A k \in DOMAIN lineItems :
       IF k \in returned'.data
       THEN /\ lineItems'[k].status = "claimed"
            /\ lineItems'[k].claimed_by = sewerId
            /\ lineItems'[k].claimed_at # NULL
            /\ [lineItems'[k] EXCEPT !.status = "pending", !.claimed_by = NULL,
                                     !.claimed_at = NULL] = lineItems[k]
       ELSE lineItems'[k] = lineItems[k]

\* C13: claimEntireOrder and claimPartialOrder return success with exactly
\* the targeted rows that were pending, which are then claimed by the caller;
\* targeted rows that were claimed, in progress, completed or void, and all
\* rows not targeted, are unchanged and not in the list; and no row is ever
\* in the lists returned to two calls.
C13_BatchClaimsPerRow ==
  /\ [](\A i \in DOMAIN won : Len(won[i]) <= 1)
  /\ [][/\ \A o \in DOMAIN orders, s \in Staff :
             claimEntireOrder(o, s) =>
               BatchOutcome({k \in DOMAIN lineItems : lineItems[k].order_id = o}, s)
        /\ \A ids \in Batches, s \in Staff :
             claimPartialOrder(ids, s) => BatchOutcome(ids, s)]_vars

\* C13 witness: bob's claimEntireOrder returned part of the order's rows,
\* because another row of the order was already claimed by alice, and it is
\* still alice's
C13_PartialSuccess ==
  /\ returned.op = "claimEntireOrder"
  /\ returned.staff = "bob"
  /\ returned.success
  /\ returned.data # {}
  /\ \A k \in returned.data : lineItems[k].claimed_by = "bob"
  /\ \E k \in DOMAIN lineItems :
       /\ lineItems[k].order_id = returned.order
       /\ k \notin returned.data
       /\ lineItems[k].claimed_by = "alice"
       /\ won[k] = << [staff |-> "alice", op |-> "claimWallet"] >>

\* C14: startWorkOnWallet on a line item that is not claimed returns
\* {success: false} with the store's no-row-matched error (PGRST116, the
\* specification's InvalidTransition) and changes no line item; on a claimed
\* item it returns success, sets the item's status to in_progress and changes
\* no other field and no other row.
C14_StartWorkOnlyFromClaimed ==
  [][\A i \in DOMAIN lineItems :
       startWorkOnWallet(i) =>
         IF lineItems[i].status = "claimed"
         THEN /\ returned'.success
              /\ returned'.data = {i}
              /\ lineItems' = [lineItems EXCEPT ![i].status = "in_progress"]
         ELSE /\ ~returned'.success
              /\ returned'.error = NoRows
              /\ returned'.item = i
              /\ lineItems' = lineItems
              /\ UNCHANGED <<orders, dailyPoints>>]_vars

\* C14 witness: startWorkOnWallet was refused on an item that is pending,
\* after it had started another item, which is in progress
C14_Refused ==
  /\ returned.op = "startWorkOnWallet"
  /\ ~returned.success
  /\ returned.error = NoRows
  /\ lineItems[returned.item].status = "pending"
  /\ \E j \in started : lineItems[j].status = "in_progress"

\* the catalogue entries a keyword of which the product name holds
Matching(product) ==
  {k \in DOMAIN WALLET_MAPPINGS : hasMatch(toLowerCase(product), WALLET_MAPPINGS[k])}

\* the length of the longest keyword of the entry k the product name holds
LongestMatch(product, k) ==
  LET lens == {Len(WALLET_MAPPINGS[k].keywords[j]) : j \in
                 {j \in DOMAIN WALLET_MAPPINGS[k].keywords :
                    includes(toLowerCase(product), toLowerCase(WALLET_MAPPINGS[k].keywords[j]))}}
  IN CHOOSE n \in lens : \A m \in lens : m <= n

\* C15: when a product name holds keyword phrases of two or more types, the
\* type returned is one whose matched keyword phrase is the longest of the
\* phrases matched.
C15_LongestMatchedKeywordWins ==
  (classified.status = "match" /\ Cardinality(Matching(classified.product)) >= 2) =>
    \E k \in Matching(classified.product) :
      /\ WALLET_MAPPINGS[k].type = classified.type
      /\ \A j \in Matching(classified.product) :
           LongestMatch(classified.product, j) <= LongestMatch(classified.product, k)

\* C16: testMappings resolves the listed product name of every catalogue
\* entry to that entry's type with that entry's points, as a wallet (a
\* match); "Sugar Land Clutch" gives sugar-land-clutch with 5 points, and
\* "Badge Trifold Wallet" gives badge-trifold.
C16_CanonicalNamesResolve ==
  classified.status # "listed" =>
    /\ \A k \in DOMAIN testProducts :
         classified.product = testProducts[k] =>
           /\ classified.status = "match"
           /\ classified.type = WALLET_MAPPINGS[k].type
           /\ classified.points = WALLET_MAPPINGS[k].points
    /\ classified.product = "Sugar Land Clutch" =>
         classified.type = "sugar-land-clutch" /\ classified.points = 5
    /\ classified.product = "Badge Trifold Wallet" => classified.type = "badge-trifold"

\* "Sugar Land Clutch" has been classified, with 5 points
C16_SugarLandClutch ==
  /\ classified.product = "Sugar Land Clutch"
  /\ classified.status = "match"
  /\ classified.points = 5

\* C17: in every reachable state daily_points holds at most one row per
\* (sewer_id, date).
C17_OneRecordPerStaffAndDate ==
  \A j, k \in DOMAIN dailyPoints :
    (dailyPoints[j].sewer_id = dailyPoints[k].sewer_id /\
     dailyPoints[j].date = dailyPoints[k].date) => j = k

\* C18: no step deletes a daily_points row, and no step lowers the points or
\* the orders_completed of one, concurrent updateDailyPoints included.
C18_LedgerNeverDecreases ==
  [][\A k \in DOMAIN dailyPoints :
       /\ k \in DOMAIN dailyPoints'
       /\ dailyPoints'[k].sewer_id = dailyPoints[k].sewer_id
       /\ dailyPoints'[k].date = dailyPoints[k].date
       /\ dailyPoints'[k].points >= dailyPoints[k].points
       /\ dailyPoints'[k].orders_completed >= dailyPoints[k].orders_completed]_vars

\* C19: when the status write of a completion has succeeded and the ledger
\* write fails, the item stays completed, the ledger is unchanged, nothing
\* is retried, and the caller is told of the failure: completeWallet does
\* not return a plain success.
C19_LedgerFailureSurfaced ==
  [][\A call \in calls :
       updateDailyPoints_write(call, TRUE) =>
         /\ lineItems'[call.item].status = "completed"
         /\ dailyPoints' = dailyPoints
         /\ calls' = calls \ {call}
         /\ returned'.op = "completeWallet" /\ returned'.item = call.item
         /\ ~(returned'.success /\ returned'.error = NULL)]_vars

\* the line items that are accessories: the product name holds no wallet
\* keyword
Accessories == {i \in DOMAIN lineItems : walletTypeOf[lineItems[i].product_name] = NULL}

\* C20: in every reachable state an accessory line item has points 0 and no
\* ledger write is under way for one; and no claim, start or completion of
\* an accessory item changes daily_points or begins a ledger write.
C20_AccessoriesCarryNoPoints ==
  /\ [](\A i \in Accessories :
          /\ lineItems[i].points = 0
          /\ credited[i] = << >>
          /\ \A call \in calls : call.item # i)
  /\ [][\A i \in Accessories :
          (\/ \E s \in Staff : claimWallet(i, s)
           \/ \E s \in Staff : claimEntireOrder(lineItems[i].order_id, s)
           \/ \E ids \in Batches, s \in Staff : i \in ids /\ claimPartialOrder(ids, s)
           \/ startWorkOnWallet(i)
           \/ completeWallet(i)) => (dailyPoints' = dailyPoints /\ calls' = calls)]_vars

\* an accessory item has been claimed, started and completed
C20_AccessoryCompleted ==
  \E i \in Accessories :
    /\ lineItems[i].status = "completed"
    /\ i \in started
    /\ lineItems[i].claimed_by # NULL

\* C21: a line item whose product name holds no wallet keyword is stored by
\* the ingestion, which does not fail for it; classifying it writes nothing;
\* in every state it has wallet_type null and points 0 and is among the rows
\* getUnmappedLineItems returns; and no step removes a line item.
C21_UnmatchedItemIsKept ==
  /\ [](\A i \in Accessories :
          /\ lineItems[i].wallet_type = NULL
          /\ lineItems[i].points = 0
          /\ i \in getUnmappedLineItems)
  /\ [][/\ DOMAIN lineItems \subseteq DOMAIN lineItems'
        /\ \A i \in DOMAIN lineItems :
             lineItems'[i].product_name = lineItems[i].product_name
        /\ \A i \in Accessories : processLineItem(i) => lineItems' = lineItems
        /\ \A q \in reqs :
             handleOrderCreate_insertLineItems(q, FALSE) =>
               /\ response'.status = 200 /\ response'.error = NULL
               /\ \A k \in DOMAIN q.body.line_items :
                    lineItems'[Len(lineItems) + k].product_name = q.body.line_items[k]]_vars

\* an item of no known type has been classified and is still there
C21_UnmatchedClassified ==
  \E i \in Accessories : i \notin feed /\ i \in getUnmappedLineItems

\* the line items of the order o, and those of them that are wallets
ItemsOf(o) == {i \in DOMAIN lineItems : lineItems[i].order_id = o}
WalletsOf(o) == ItemsOf(o) \ Accessories

RECURSIVE SumPoints(_)
SumPoints(items) ==
  IF items = {} THEN 0
  ELSE LET i == CHOOSE i \in items : TRUE
       IN lineItems[i].points + SumPoints(items \ {i})

\* the order o has been ingested and classified: its handleOrderCreate has
\* returned, its INSERT events are delivered and no classification of it or
\* of its items is under way
Settled(o) ==
  /\ o \in DOMAIN orders
  /\ ItemsOf(o) # {}
  /\ \A q \in reqs : q.insertedOrder # o
  /\ o \notin orderFeed
  /\ \A proc \in procs : proc.order # o
  /\ ItemsOf(o) \cap feed = {}

\* C22: once an order is ingested and classified, its points are the sum of
\* the points of its wallet line items and its total_wallets is the number
\* of its wallet line items.
C22_OrderTotals ==
  \A o \in DOMAIN orders :
    Settled(o) =>
      /\ orders[o].points = SumPoints(WalletsOf(o))
      /\ orders[o].total_wallets = Cardinality(WalletsOf(o))

\* the stored orders that carry the source id of the payload of q, and the
\* line items that belong to them
TargetsOf(q) == {k \in DOMAIN orders : orders[k].shopify_order_id = toString(q.body.id)}
TargetItemsOf(q) == {i \in DOMAIN lineItems : lineItems[i].order_id \in TargetsOf(q)}

OtherTopics == {req \in Authentic : req.topic \notin {"orders/create", "orders/updated"}}

\* C24: an authentic request whose topic is neither orders/create nor
\* orders/updated is answered 200, and its delivery changes no table and
\* leaves no invocation behind that could.
C24_UnknownTopicIgnored ==
  [][\A req \in OtherTopics :
       handler(req) =>
         /\ response'.status = 200
         /\ response'.error = NULL
         /\ UNCHANGED <<orders, lineItems, dailyPoints, reqs, feed, orderFeed>>]_vars

\* a request on another topic has been answered while an order was stored
C24_AnsweredAndIgnored ==
  /\ response.topic = "products/create"
  /\ response.status = 200
  /\ orders # << >>

\* the name the payload gives by priority: the customer's name when it is
\* not empty, else the name of the billing address when there is one, else
\* 'Unknown'
NameByPriority(p) ==
  LET full == IF p.customer = << >> THEN ""
              ELSE trim((IF Falsy(p.customer[1]) THEN "" ELSE p.customer[1]) \o " " \o
                        (IF Falsy(p.customer[2]) THEN "" ELSE p.customer[2]))
  IN IF full # "" THEN full
     ELSE IF p.billing_address # << >> /\ ~Falsy(p.billing_address[1])
          THEN p.billing_address[1]
          ELSE "Unknown"

\* C25: the orderer_name handleOrderCreate and handleOrderUpdate store is
\* the payload's name by priority, so never the empty string.
C25_OrdererNameByPriority ==
  /\ [](\A k \in DOMAIN orders : orders[k].orderer_name # "")
  /\ [][\A q \in reqs :
          /\ (handleOrderCreate_insertOrder(q, FALSE) /\ orders' # orders) =>
               orders'[Len(orders')].orderer_name = NameByPriority(q.body)
          /\ handleOrderUpdate_updateOrder(q) =>
               \A k \in DOMAIN orders :
                 orders[k].order_number = toString(q.body.order_number) =>
                   orders'[k].orderer_name = NameByPriority(q.body)]_vars

\* C26: completed and void are terminal: no step changes the status,
\* claimed_by, completed_at or voided_at of a line item that is completed
\* or void.
C26_TerminalStatuses ==
  [][\A i \in DOMAIN lineItems :
       lineItems[i].status \in {"completed", "void"} =>
         /\ i \in DOMAIN lineItems'
         /\ lineItems'[i].status = lineItems[i].status
         /\ lineItems'[i].claimed_by = lineItems[i].claimed_by
         /\ lineItems'[i].completed_at = lineItems[i].completed_at
         /\ lineItems'[i].voided_at = lineItems[i].voided_at]_vars

\* an order has been cancelled, the cancellation is through, and an item of
\* it that was completed before is completed still, beside a void one
C26_CancelledAfterCompletion ==
  \E i, j \in DOMAIN lineItems :
    /\ reqs = {}
    /\ lineItems[i].order_id = lineItems[j].order_id
    /\ orders[lineItems[i].order_id].shopify_metadata.cancelled_at # NULL
    /\ lineItems[i].status = "completed"
    /\ lineItems[j].status = "void"

\* C27: the claimed_by of a line item, once set, never changes; a ledger
\* write under way for an item is for the staff member recorded on the item,
\* and the daily_points row it writes is that staff member's.
C27_CreditGoesToClaimant ==
  /\ [](\A call \in calls : call.sewerId = lineItems[call.item].claimed_by)
  /\ [][/\ \A i \in DOMAIN lineItems :
             lineItems[i].claimed_by # NULL =>
               lineItems'[i].claimed_by = lineItems[i].claimed_by
        /\ \A call \in calls :
             updateDailyPoints_write(call, FALSE) =>
               \A k \in DOMAIN dailyPoints' :
                 (k \notin DOMAIN dailyPoints \/ dailyPoints'[k] # dailyPoints[k]) =>
                   dailyPoints'[k].sewer_id = lineItems[call.item].claimed_by]_vars

\* bob's item has been started and completed and bob has been credited its
\* points, while alice holds another item
C27_ClaimantCredited ==
  \E i, j \in DOMAIN lineItems, k \in DOMAIN dailyPoints :
    /\ lineItems[i].claimed_by = "bob"
    /\ lineItems[i].status = "completed"
    /\ dailyPoints[k].sewer_id = "bob"
    /\ dailyPoints[k].points = lineItems[i].points
    /\ lineItems[j].claimed_by = "alice"

\* C28: in every reachable state, for each line item: claimed, in_progress
\* or completed implies claimed_by and claimed_at are set; completed if and
\* only if completed_at is set; void if and only if voided_at is set, and a
\* void item has no claimed_by; pending implies claimed_by, completed_at and
\* voided_at are unset.
C28_FieldsFollowStatus ==
  \A i \in DOMAIN lineItems :
    LET row == lineItems[i] IN
      /\ row.status \in {"claimed", "in_progress", "completed"} =>
           (row.claimed_by # NULL /\ row.claimed_at # NULL)
      /\ row.status = "completed" <=> row.completed_at # NULL
      /\ row.status = "void" <=> row.voided_at # NULL
      /\ row.status = "void" => row.claimed_by = NULL
      /\ row.status = "pending" =>
           (row.claimed_by = NULL /\ row.completed_at = NULL /\ row.voided_at = NULL)

\* an item in progress beside a void one
C28_InProgressBesideVoid ==
  \E i, j \in DOMAIN lineItems :
    /\ lineItems[i].status = "in_progress"
    /\ lineItems[i].claimed_at # NULL
    /\ lineItems[j].status = "void"
    /\ lineItems[j].voided_at = CancelTs

\* C29: of a claim and a cancellation that meet on a pending line item
\* exactly one takes effect: a claimWallet that finds the item pending
\* succeeds and the item is claimed and not voided, then or later; one that
\* finds it void fails and leaves it; the voiding leaves every item that is
\* not pending; no item is ever void with a claimed_by or won by a claim, or
\* claimed with a voided_at.
C29_ClaimOrVoidNotBoth ==
  /\ [](\A i \in DOMAIN lineItems :
          /\ ~(lineItems[i].status = "void" /\ lineItems[i].claimed_by # NULL)
          /\ ~(lineItems[i].status = "void" /\ won[i] # << >>)
          /\ ~(lineItems[i].status # "void" /\ lineItems[i].voided_at # NULL))
  /\ [][/\ \A i \in DOMAIN lineItems, s \in Staff :
             claimWallet(i, s) =>
               IF lineItems[i].status = "pending"
               THEN /\ returned'.success
                    /\ lineItems'[i].status = "claimed"
                    /\ lineItems'[i].claimed_by = s
                    /\ lineItems'[i].voided_at = NULL
               ELSE /\ ~returned'.success
                    /\ lineItems'[i] = lineItems[i]
        /\ \A q \in reqs :
             handleOrderUpdate_voidLineItems(q) =>
               \A i \in DOMAIN lineItems :
                 IF /\ lineItems[i].status = "pending"
                    /\ lineItems[i].order_number = toString(q.body.order_number)
                 THEN lineItems'[i].status = "void" /\ lineItems'[i].claimed_by = NULL
                 ELSE lineItems'[i] = lineItems[i]]_vars

\* both outcomes under one cancellation: an item of the cancelled order was
\* claimed in time and is claimed still, another was voided and the claim on
\* it has just been refused
C29_BothOutcomes ==
  \E i, j \in DOMAIN lineItems :
    /\ reqs = {}
    /\ lineItems[i].order_id = lineItems[j].order_id
    /\ orders[lineItems[i].order_id].shopify_metadata.cancelled_at # NULL
    /\ lineItems[i].status = "claimed"
    /\ won[i] # << >>
    /\ lineItems[j].status = "void"
    /\ returned.op = "claimWallet" /\ returned.item = j /\ ~returned.success

\* the line items `sewerId` holds completed (all completions are of Today)
CompletedBy(sewerId) ==
  {i \in DOMAIN lineItems : /\ lineItems[i].status = "completed"
                            /\ lineItems[i].claimed_by = sewerId}

\* the points daily_points holds for `sewerId` today, over all its rows
RECURSIVE SumRows(_)
SumRows(rows) ==
  IF rows = {} THEN 0
  ELSE LET k == CHOOSE k \in rows : TRUE
       IN dailyPoints[k].points + SumRows(rows \ {k})

LedgerPoints(sewerId) ==
  SumRows({k \in DOMAIN dailyPoints : /\ dailyPoints[k].sewer_id = sewerId
                                      /\ dailyPoints[k].date = Today})

\* C30: when nothing is in flight (no webhook invocation, no ledger write, no
\* undelivered INSERT event), the points daily_points holds for each staff
\* member are the sum of the current points of the line items that member
\* holds completed.
C30_LedgerMatchesCurrentPoints ==
  (reqs = {} /\ calls = {} /\ feed = {}) =>
    \A s \in Staff : LedgerPoints(s) = SumPoints(CompletedBy(s))

====
